---- MODULE Spec2Model ----
(***************************************************************************)
(* A model of the rainmapping scripts: the grid index mapper and the       *)
(* sparse grid serializer of extract_data.py, the pixel layout and the     *)
(* colorizers of the overlay generators, and the batch loops.              *)
(*                                                                         *)
(* Arithmetic.  Python floats are modelled by exact rationals kept as      *)
(* scaled integers:                                                        *)
(*   - projected coordinates are kept doubled (x2 = 2 * x), so that the    *)
(*     half cell of index_to_coord is an integer;                          *)
(*   - raster values are kept in hundredths, stored values in tenths;      *)
(*   - a pixel coordinate is kept as a numerator over the divisor the      *)
(*     generator uses.                                                     *)
(* int() truncates toward zero and round() rounds half to even, as in      *)
(* Python 3.  str() of an int is injective, so a key is kept as the int.   *)
(***************************************************************************)
EXTENDS Integers, Sequences, FiniteSets, TLC

(***************************************************************************)
(* Bounds of the model.                                                    *)
(***************************************************************************)
MaxRows == 2
MaxCols == 2
MaxRes == 2
MaxCells == 4
TempBelow == 2
TempAbove == 2
MaxDecileCells == 4
MaxImgSize == 3
SrcRows == 2
ImgRows == 2
MonthsPerYear == 2

\* Doubled offsets of X_MIN and Y_MAX tried by the grid specification.  With
\* resolution 2, the offset -2 is the shape of the configured extent
\* (X_MIN = -199500.0 = a multiple of 1000 minus half a cell) and the offset 0
\* the shape of an extent whose edge is a multiple of the resolution.
ExtentOffsets2 == {-3, -2, -1, 0, 1}

\* Raster values tried, in hundredths: 12.34, 12.35 (a tie, to even 12.4),
\* -0.25 (a tie, to even -0.2).
FrameValues == {1234, 1235, -25}

\* Values of the frames given to the decile colorizer, in hundredths.
DecileValues == {500, 700, 710, 1200}
\* Values of the frames and sparse grids given to the generator functions:
\* temperatures in hundredths, rainfall and sunshine amounts.
ImageTemps == {1100, 2500}
ImageAmounts == {10, 20}

\* Bounds of the layouts tried, in half degrees.
LatMins2 == {99, 100}
LatMaxs2 == {122, 123}
LngMins2 == {-17, -16}
LngMaxs2 == {4, 5}

VARIABLES
    \* grid index mapper and sparse grid serializer (extract_data.py)
    extent,       \* [x_min2, y_max2, res, width, height]
    frame,        \* month_data_array: cell -> value, non-NaN cells only
    month_data,   \* the sparse grid: x_key -> (y_key -> stored value)
    ser_i,        \* position of the serializer loop in the non-NaN cells
    probe,        \* the last mapper or lookup call and its result
    \* colorizers
    colorizer,    \* the last sequential colorizer call: two temperatures, two indices
    temp_values,  \* the frame given to create_temp_rgb_array, non-NaN cells only
    color_idx,    \* its color_idx over the valid cells
    bivariate,    \* the last call of get_color_for_rain_sun and its result
    tertile,      \* the breakpoints last selected from a rain and a sun grid
    \* pixel layout of the generators
    layout,       \* [script, height, width, south, north, west, east]
    pixel,        \* the last pixel whose coordinate was computed, and the coordinate
    landmark,     \* the last test point placed on the image, and its pixel
    \* one image built and written by one generator function
    gen,          \* [script, kind]: the generator function
    src,          \* [temp, rain, sun]: source cell -> value, cells with a value only
    proj,         \* pixel -> outcome of the coordinate transform and key rounding
    img_array,    \* the array after the per-pixel loop
    png,          \* the file written
    img_status,   \* "start", "written", "skipped" or "raised"
    \* one run of a batch script
    script,       \* the script run
    files,        \* [temp, rain, sun]: the years whose input file exists
    stale,        \* outputs left in the output directory by an earlier run
    pc,           \* position of the run
    var_i,        \* extract_data.py: which process_variable call
    year_i,       \* position in the years
    month_i,      \* position in the months
    open_handles, \* source datasets open
    extent_info,  \* process_temperature.py: TRUE once extent_info is set
    monthly_temp_sum, \* process_temperature.py: month -> years appended
    total_images, \* process_temperature.py
    failed_images, \* process_temperature.py
    outputs,      \* files written by this run: <<kind, year, month>>
    descriptor,   \* the metadata or bounds file written by this run
    log,          \* messages printed: <<what, kind, year, month>>
    \* the start of a script, before its loops
    config,       \* [script, west, east, south, north, res]: the constants configured
    boot          \* [pc, dirs, read]: position, directories created, a source read

gridVars == <<extent, frame, month_data, ser_i, probe>>
colorVars == <<colorizer, temp_values, color_idx, bivariate, tertile>>
pixelVars == <<layout, pixel, landmark>>
imageVars == <<gen, src, proj, img_array, png, img_status>>
batchVars == <<script, files, stale, pc, var_i, year_i, month_i, open_handles,
               extent_info, monthly_temp_sum, total_images, failed_images,
               outputs, descriptor, log>>
startVars == <<config, boot>>
vars == <<gridVars, colorVars, pixelVars, imageVars, batchVars, startVars>>

\* What an action of one part of the model leaves alone.
GridStep == UNCHANGED <<colorVars, pixelVars, imageVars, batchVars, startVars>>
ColorStep == UNCHANGED <<gridVars, pixelVars, imageVars, batchVars, startVars>>
PixelStep == UNCHANGED <<gridVars, colorVars, imageVars, batchVars, startVars>>
ImageStep == UNCHANGED <<gridVars, colorVars, pixelVars, batchVars, startVars>>
BatchStep == UNCHANGED <<gridVars, colorVars, pixelVars, imageVars, startVars>>
StartStep == UNCHANGED <<gridVars, colorVars, pixelVars, imageVars, batchVars>>

(***************************************************************************)
(* Python arithmetic.                                                      *)
(***************************************************************************)
\* int(p / q) for q > 0: truncation toward zero.
PyInt(p, q) == IF p >= 0 THEN p \div q ELSE -((-p) \div q)

\* round(p / q) for q > 0: round half to even.
PyRound(p, q) ==
    LET fl == p \div q
        rem == p - fl * q
    IN  IF 2 * rem < q THEN fl
        ELSE IF 2 * rem > q THEN fl + 1
        ELSE IF fl % 2 = 0 THEN fl ELSE fl + 1

(***************************************************************************)
(* Grid index mapper.                                                      *)
(***************************************************************************)
Cells(e) == (0 .. e.height - 1) \X (0 .. e.width - 1)

\* coord_to_index with the target row computed from the south edge.
coord_to_index_noflip(e, x2, y2) ==
    <<PyInt(y2 - (e.y_max2 - 2 * e.res * e.height), 2 * e.res),
      PyInt(x2 - e.x_min2, 2 * e.res)>>

\* coord_to_index(x, y) -> (row, col)
coord_to_index(e, x2, y2) ==
    <<PyInt(e.y_max2 - y2, 2 * e.res), PyInt(x2 - e.x_min2, 2 * e.res)>>

\* index_to_coord(row, col) -> (x, y), doubled: the centre of the cell
index_to_coord(e, row, col) ==
    <<e.x_min2 + (2 * col + 1) * e.res, e.y_max2 - (2 * row + 1) * e.res>>

(***************************************************************************)
(* Sparse grid serializer (extract_data.py) and the resampler's key lookup *)
(* (generate_pngs_fixed.py).                                               *)
(***************************************************************************)
EmptyMap == [k \in {} |-> 0]

\* rows, cols = np.where(~np.isnan(month_data_array)): the i-th non-NaN cell
\* in row-major order
Rank(e, cell) == cell[1] * e.width + cell[2]
NthCell(e, f, i) ==
    CHOOSE c \in DOMAIN f :
        Cardinality({d \in DOMAIN f : Rank(e, d) < Rank(e, c)}) = i - 1

\* round(float(v), 1): hundredths to tenths
Round1(v) == PyRound(v, 10)

\* SerializerKey truncating to an even number.
SerializerKeyCoarse(c2) == 2 * PyInt(c2, 4)

\* the serializer's key of a doubled coordinate: str(int(x))
SerializerKey(c2) == PyInt(c2, 2)

\* SparsePut replacing month_data[x_key] by a fresh {y_key: v} on every store.
SparsePutOverwrite(m, xk, yk, v) ==
    [k \in DOMAIN m \cup {xk} |-> IF k = xk THEN [j \in {yk} |-> v] ELSE m[k]]

\* month_data[x_key][y_key] = v, creating month_data[x_key] when absent
SparsePut(m, xk, yk, v) ==
    LET inner == IF xk \in DOMAIN m THEN m[xk] ELSE EmptyMap
        inner2 == [k \in DOMAIN inner \cup {yk} |-> IF k = yk THEN v ELSE inner[k]]
    IN  [k \in DOMAIN m \cup {xk} |-> IF k = xk THEN inner2 ELSE m[k]]

\* ResamplerKey truncating the quotient.
ResamplerKeyTruncated(e, c2) == PyInt(c2, 2 * e.res) * e.res

\* the resampler's key of a doubled coordinate:
\* str(int(round(x / resolution) * resolution))
ResamplerKey(e, c2) == PyRound(c2, 2 * e.res) * e.res

\* x_key in data and y_key in data[x_key]
SparseHas(m, xk, yk) == xk \in DOMAIN m /\ yk \in DOMAIN m[xk]

NoProbe == [op |-> "none", x2 |-> 0, y2 |-> 0, row |-> 0, col |-> 0,
            out_row |-> 0, out_col |-> 0, x_key |-> 0, y_key |-> 0,
            found |-> FALSE, value |-> 0]

\* The extents tried: X_MIN and Y_MAX at a doubled offset, a resolution, and
\* a raster of height x width cells, at most MaxCells cells.
Extents ==
    {e \in [x_min2 : ExtentOffsets2, y_max2 : ExtentOffsets2, res : 1 .. MaxRes,
            width : 1 .. MaxCols, height : 1 .. MaxRows] :
        e.width * e.height <= MaxCells}

Frames(e) == UNION {[S -> FrameValues] : S \in SUBSET Cells(e)}

GridIdle ==
    /\ extent = [x_min2 |-> 0, y_max2 |-> 0, res |-> 1, width |-> 1, height |-> 1]
    /\ frame = EmptyMap
    /\ month_data = EmptyMap
    /\ ser_i = 0
    /\ probe = NoProbe

\* --- the serializer of process_variable and the lookup of the resampler ---
SparseInit ==
    /\ extent \in Extents
    /\ frame \in Frames(extent)
    /\ month_data = EmptyMap
    /\ ser_i = 1
    /\ probe = NoProbe

\* one pass of "for row, col in zip(rows, cols)"
SerializeCell ==
    /\ ser_i >= 1
    /\ ser_i <= Cardinality(DOMAIN frame)
    /\ LET c == NthCell(extent, frame, ser_i)
           xy == index_to_coord(extent, c[1], c[2])
       IN  month_data' = SparsePut(month_data, SerializerKey(xy[1]),
                                   SerializerKey(xy[2]), Round1(frame[c]))
    /\ ser_i' = ser_i + 1
    /\ UNCHANGED <<extent, frame, probe>>
    /\ GridStep

SerializeDone == ser_i = Cardinality(DOMAIN frame) + 1

\* the resampler's lookup at the exact centre of a cell of the raster
LookupCentre ==
    /\ SerializeDone
    /\ probe.op = "none"
    /\ \E c \in Cells(extent) :
         LET xy == index_to_coord(extent, c[1], c[2])
             xk == ResamplerKey(extent, xy[1])
             yk == ResamplerKey(extent, xy[2])
             hit == SparseHas(month_data, xk, yk)
         IN  probe' = [NoProbe EXCEPT !.op = "lookup", !.x2 = xy[1], !.y2 = xy[2],
                         !.row = c[1], !.col = c[2], !.x_key = xk, !.y_key = yk,
                         !.found = hit,
                         !.value = IF hit THEN month_data[xk][yk] ELSE 0]
    /\ UNCHANGED <<extent, frame, month_data, ser_i>>
    /\ GridStep

\* --- the grid index mapper applied to inputs ---
MapperInit ==
    /\ extent \in Extents
    /\ frame = EmptyMap
    /\ month_data = EmptyMap
    /\ ser_i = 0
    /\ probe = NoProbe

\* coord_to_index(index_to_coord(row, col)) for a cell of the raster
RoundTripCall ==
    /\ probe.op = "none"
    /\ \E c \in Cells(extent) :
         LET xy == index_to_coord(extent, c[1], c[2])
             rc == coord_to_index(extent, xy[1], xy[2])
         IN  probe' = [NoProbe EXCEPT !.op = "round_trip", !.row = c[1], !.col = c[2],
                         !.x2 = xy[1], !.y2 = xy[2],
                         !.out_row = rc[1], !.out_col = rc[2]]
    /\ UNCHANGED <<extent, frame, month_data, ser_i>>
    /\ GridStep

\* The doubled coordinates tried: the extent and more than one cell around it.
ProbeXs(e) == (e.x_min2 - 2 * e.res - 1) .. (e.x_min2 + 2 * e.res * e.width + 2 * e.res + 1)
ProbeYs(e) == (e.y_max2 - 2 * e.res * e.height - 2 * e.res - 1) .. (e.y_max2 + 2 * e.res + 1)

\* coord_to_index(x, y) for a coordinate inside or outside the extent
MapperCall ==
    /\ probe.op = "none"
    /\ \E x2 \in ProbeXs(extent), y2 \in ProbeYs(extent) :
         LET rc == coord_to_index(extent, x2, y2)
         IN  probe' = [NoProbe EXCEPT !.op = "coord_to_index", !.x2 = x2, !.y2 = y2,
                         !.out_row = rc[1], !.out_col = rc[2]]
    /\ UNCHANGED <<extent, frame, month_data, ser_i>>
    /\ GridStep

\* the key pair the resampler looks up for a projected coordinate, inside or
\* outside the extent
ResamplerKeyCall ==
    /\ probe.op = "none"
    /\ \E x2 \in ProbeXs(extent), y2 \in ProbeYs(extent) :
         probe' = [NoProbe EXCEPT !.op = "resampler_key", !.x2 = x2, !.y2 = y2,
                     !.x_key = ResamplerKey(extent, x2),
                     !.y_key = ResamplerKey(extent, y2)]
    /\ UNCHANGED <<extent, frame, month_data, ser_i>>
    /\ GridStep

(***************************************************************************)
(* Colorizers.  Values are in hundredths.                                  *)
(***************************************************************************)
\* get_color_for_temp(temp, min_t=-10, max_t=32) and len(TEMP_COLORS)
ScaleMin == -10
ScaleMax == 32
NumColors == 10

Min(a, b) == IF a <= b THEN a ELSE b
Max(a, b) == IF a >= b THEN a ELSE b

\* clamped = max(0, min(1, (temp - min_t) / (max_t - min_t))), as a numerator
\* over ScaleDen
ScaleDen == (ScaleMax - ScaleMin) * 100
Clamped(t) == Max(0, Min(ScaleDen, t - ScaleMin * 100))

\* get_color_for_temp of generate_pngs_fixed.py, generate_pngs.py and
\* generate_pngs_old_broken.py: the index into TEMP_COLORS
get_color_for_temp(t) ==
    Min(PyInt(Clamped(t) * (NumColors - 1), ScaleDen), NumColors - 1)

\* temp_colormap of generate_leaflet_images.py
temp_colormap(t) == PyInt(Clamped(t) * (NumColors - 1), ScaleDen)

\* the inline mapping of process_temp of generate_overlay_images.py
process_temp_color_idx(t) == Min(PyInt(Clamped(t) * NumColors, ScaleDen), NumColors - 1)

\* temp_valid sorted: its k-th smallest value, k in 1 .. n
KthSmallest(f, k) ==
    CHOOSE v \in {f[c] : c \in DOMAIN f} :
        /\ Cardinality({c \in DOMAIN f : f[c] < v}) < k
        /\ k <= Cardinality({c \in DOMAIN f : f[c] <= v})

\* np.percentile(temp_valid, 10 * k), times 10: linear interpolation between
\* the two values around the position (n - 1) * k / 10
DecileBound10(f, k) ==
    LET n == Cardinality(DOMAIN f)
        pos == (n - 1) * k
        lo == pos \div 10
        fr == pos % 10
        a == KthSmallest(f, lo + 1)
    IN  IF fr = 0 THEN 10 * a
        ELSE 10 * a + fr * (KthSmallest(f, lo + 2) - a)

\* the bin loop of create_temp_rgb_array stopping at the first bound exceeded.
DecileIdxFirst(f, v) ==
    LET hit == {i \in 1 .. 9 : 10 * v > DecileBound10(f, i)}
    IN  IF hit = {} THEN 0 ELSE CHOOSE i \in hit : \A j \in hit : j >= i

\* the bin loop of create_temp_rgb_array with the comparison turned round.
DecileIdxLess(f, v) ==
    LET hit == {i \in 1 .. 9 : 10 * v < DecileBound10(f, i)}
    IN  IF hit = {} THEN 0 ELSE CHOOSE i \in hit : \A j \in hit : j <= i

\* color_idx of a valid cell of value v: 0, then for each bound in order
\* color_idx[temp_values > bound] = i + 1, the last assignment standing
DecileIdx(f, v) ==
    LET hit == {i \in 1 .. 9 : 10 * v > DecileBound10(f, i)}
    IN  IF hit = {} THEN 0 ELSE CHOOSE i \in hit : \A j \in hit : j <= i

\* color_idx over the valid cells of a frame (process_temperature.py)
create_temp_color_idx(f) == [c \in DOMAIN f |-> DecileIdx(f, f[c])]

\* Temperatures tried: every quarter of a degree from TempBelow degrees under
\* the scale to TempAbove degrees over it.
TempSamples ==
    {t \in ((ScaleMin - TempBelow) * 100) .. ((ScaleMax + TempAbove) * 100) : t % 25 = 0}

DecileFrames == UNION {[S -> DecileValues] : S \in SUBSET (1 .. MaxDecileCells)}

NoColor == [op |-> "none", temp |-> 0, idx |-> 0, temp2 |-> 0, idx2 |-> 0]

NoBivariate == [op |-> "none", rain |-> 0, sun |-> 0, rain33 |-> 0, rain66 |-> 0,
                sun33 |-> 0, sun66 |-> 0, rain_level |-> 0, sun_level |-> 0,
                found |-> FALSE, rgb |-> <<>>]

NotSelected == [n |-> 0, raised |-> FALSE, idx |-> <<0, 0>>, b |-> <<0, 0>>]

NoTertile == [op |-> "none", script |-> "none", rain |-> NotSelected, sun |-> NotSelected]

ColorIdle ==
    /\ colorizer = NoColor
    /\ temp_values = EmptyMap
    /\ color_idx = EmptyMap
    /\ bivariate = NoBivariate
    /\ tertile = NoTertile

ColorInit ==
    /\ colorizer = NoColor
    /\ temp_values \in DecileFrames
    /\ color_idx = EmptyMap
    /\ bivariate = NoBivariate
    /\ tertile = NoTertile

\* No colorizer was applied yet, and no frame is given: the call is one of a
\* sequential colorizer.
SequentialReady ==
    /\ colorizer.op = "none"
    /\ bivariate.op = "none"
    /\ tertile.op = "none"
    /\ temp_values = EmptyMap

\* a sequential colorizer applied to two temperatures
ApplySequential(op, t1, t2, i1, i2) ==
    /\ colorizer' = [op |-> op, temp |-> t1, idx |-> i1, temp2 |-> t2, idx2 |-> i2]
    /\ UNCHANGED <<temp_values, color_idx, bivariate, tertile>>
    /\ ColorStep

CallGetColorForTemp ==
    /\ SequentialReady
    /\ \E t1 \in TempSamples : \E t2 \in {t \in TempSamples : t >= t1} :
         ApplySequential("get_color_for_temp", t1, t2,
                           get_color_for_temp(t1), get_color_for_temp(t2))

CallTempColormap ==
    /\ SequentialReady
    /\ \E t1 \in TempSamples : \E t2 \in {t \in TempSamples : t >= t1} :
         ApplySequential("temp_colormap", t1, t2, temp_colormap(t1), temp_colormap(t2))

CallProcessTempColor ==
    /\ SequentialReady
    /\ \E t1 \in TempSamples : \E t2 \in {t \in TempSamples : t >= t1} :
         ApplySequential("process_temp", t1, t2,
                           process_temp_color_idx(t1), process_temp_color_idx(t2))

\* the decile binning of create_temp_rgb_array on a frame with valid values
CallDecile ==
    /\ colorizer.op = "none"
    /\ DOMAIN temp_values # {}
    /\ colorizer' = [NoColor EXCEPT !.op = "decile"]
    /\ color_idx' = create_temp_color_idx(temp_values)
    /\ UNCHANGED <<temp_values, bivariate, tertile>>
    /\ ColorStep

(***************************************************************************)
(* Pixel layout of the resampling generators.  A bound is in half degrees  *)
(* when the layout is geographic; a coordinate is a numerator over a       *)
(* denominator.                                                            *)
(***************************************************************************)
PixelScripts == {"generate_pngs_fixed.py", "generate_pngs.py", "generate_pngs_old_broken.py"}

\* The coordinate system the per-pixel loop interpolates in: the transformer
\* the pixel coordinate is given to is wgs84_to_bng (from EPSG:4326) in
\* generate_pngs_fixed.py and generate_pngs.py, mercator_to_bng (from
\* EPSG:3857) in generate_pngs_old_broken.py.
LayoutCRS(s) == IF s = "generate_pngs_old_broken.py" THEN "EPSG:3857" ELSE "EPSG:4326"

\* the divisor of the row: IMG_HEIGHT - 1 or IMG_HEIGHT
RowDivisor(s, h) == IF s = "generate_pngs_fixed.py" THEN h - 1 ELSE h

\* the divisor of the column: IMG_WIDTH - 1 or IMG_WIDTH
ColDivisor(s, w) == IF s = "generate_pngs_fixed.py" THEN w - 1 ELSE w

\* lat = LAT_MAX - (row / divisor) * (LAT_MAX - LAT_MIN), and merc_y likewise,
\* as a numerator over the divisor
PixelLatNum(l, row) ==
    l.north * RowDivisor(l.script, l.height) - row * (l.north - l.south)

\* lng = LNG_MIN + (col / divisor) * (LNG_MAX - LNG_MIN), and merc_x likewise
PixelLngNum(l, col) ==
    l.west * ColDivisor(l.script, l.width) + col * (l.east - l.west)

\* The layouts tried: each script, images of 2 .. MaxImgSize rows and columns,
\* and bounds around those of generate_pngs.py (49.5, 61.0, -8.5, 2.0).
Layouts ==
    [script : PixelScripts, height : 2 .. MaxImgSize, width : 2 .. MaxImgSize,
     south : LatMins2, north : LatMaxs2, west : LngMins2, east : LngMaxs2]

NoPixel == [op |-> "none", row |-> 0, col |-> 0, crs |-> "none",
            lat_num |-> 0, lat_den |-> 1, lng_num |-> 0, lng_den |-> 1]

NoLandmark == [op |-> "none", lat |-> 0, lng |-> 0, row |-> 0, col |-> 0]

PixelIdle ==
    /\ layout = [script |-> "none", height |-> 2, width |-> 2,
                 south |-> 0, north |-> 0, west |-> 0, east |-> 0]
    /\ pixel = NoPixel
    /\ landmark = NoLandmark

PixelInit ==
    /\ layout \in Layouts
    /\ pixel = NoPixel
    /\ landmark = NoLandmark

\* the coordinate the per-pixel loop computes for pixel (row, col)
PixelCoordinate(fn, row, col) ==
    /\ pixel' = [op |-> fn, row |-> row, col |-> col,
                 crs |-> LayoutCRS(layout.script),
                 lat_num |-> PixelLatNum(layout, row),
                 lat_den |-> RowDivisor(layout.script, layout.height),
                 lng_num |-> PixelLngNum(layout, col),
                 lng_den |-> ColDivisor(layout.script, layout.width)]
    /\ UNCHANGED <<layout, landmark>>
    /\ PixelStep

\* one pass of the pixel loop of generate_temp_image
TempImagePixel ==
    /\ pixel.op = "none"
    /\ \E row \in 0 .. layout.height - 1 : \E col \in 0 .. layout.width - 1 :
         PixelCoordinate("generate_temp_image", row, col)

\* one pass of the pixel loop of generate_rain_sun_image
RainSunImagePixel ==
    /\ pixel.op = "none"
    /\ \E row \in 0 .. layout.height - 1 : \E col \in 0 .. layout.width - 1 :
         PixelCoordinate("generate_rain_sun_image", row, col)

(***************************************************************************)
(* Test points placed on the image by the alignment scripts.  A latitude   *)
(* or longitude is in half degrees, as the bounds of the layout are.       *)
(***************************************************************************)
PlacementScripts ==
    {"generate_test_image_fixed.py", "test_pixel_location.py", "check_data_orientation.py"}

PlacementLayouts ==
    [script : PlacementScripts, height : 2 .. MaxImgSize, width : 2 .. MaxImgSize,
     south : LatMins2, north : LatMaxs2, west : LngMins2, east : LngMaxs2]

\* the latitudes and longitudes of the test points tried: every half degree
\* from one below the smallest bound to one above the largest
PointLats == 98 .. 124
PointLngs == -18 .. 6

PlacementInit ==
    /\ layout \in PlacementLayouts
    /\ pixel = NoPixel
    /\ landmark = NoLandmark

\* LAT_MIN <= lat <= LAT_MAX and LNG_MIN <= lng <= LNG_MAX
WithinBounds(l, lat, lng) ==
    /\ l.south <= lat /\ lat <= l.north
    /\ l.west <= lng /\ lng <= l.east

\* PlacedRow rounding to the nearest row instead of truncating
PlacedRowRounded(l, lat) == PyRound((l.north - lat) * (l.height - 1), l.north - l.south)

\* row = int((LAT_MAX - lat) / (LAT_MAX - LAT_MIN) * (IMG_HEIGHT - 1))
PlacedRow(l, lat) == PyInt((l.north - lat) * (l.height - 1), l.north - l.south)

\* col = int((lng - LNG_MIN) / (LNG_MAX - LNG_MIN) * (IMG_WIDTH - 1))
PlacedCol(l, lng) == PyInt((lng - l.west) * (l.width - 1), l.east - l.west)

\* leaflet_lat = LAT_MAX - (row / (IMG_HEIGHT - 1)) * (LAT_MAX - LAT_MIN), as a
\* numerator over IMG_HEIGHT - 1
LeafletLatNum(l, row) == l.north * (l.height - 1) - row * (l.north - l.south)

\* leaflet_lng = LNG_MIN + (col / (IMG_WIDTH - 1)) * (LNG_MAX - LNG_MIN), as a
\* numerator over IMG_WIDTH - 1
LeafletLngNum(l, col) == l.west * (l.width - 1) + col * (l.east - l.west)

\* One test point of generate_test_image_fixed.py: a point outside the bounds
\* is reported and left out, the pixel of another is clamped to the image.
draw_landmark ==
    /\ layout.script = "generate_test_image_fixed.py"
    /\ landmark.op = "none"
    /\ \E lat \in PointLats : \E lng \in PointLngs :
         landmark' =
             IF ~WithinBounds(layout, lat, lng)
             THEN [op |-> "outside", lat |-> lat, lng |-> lng, row |-> 0, col |-> 0]
             ELSE [op |-> "placed", lat |-> lat, lng |-> lng,
                   row |-> Max(0, Min(layout.height - 1, PlacedRow(layout, lat))),
                   col |-> Max(0, Min(layout.width - 1, PlacedCol(layout, lng)))]
    /\ UNCHANGED <<layout, pixel>>
    /\ PixelStep

\* The point of test_pixel_location.py and one location of
\* check_data_orientation.py: the pixel is computed for any coordinate, and
\* check_data_orientation.py reads it only when it lies in the image.
locate_pixel ==
    /\ layout.script \in {"test_pixel_location.py", "check_data_orientation.py"}
    /\ landmark.op = "none"
    /\ \E lat \in PointLats : \E lng \in PointLngs :
         LET row == PlacedRow(layout, lat)
             col == PlacedCol(layout, lng)
         IN  landmark' =
                 [op |-> IF \/ layout.script = "test_pixel_location.py"
                            \/ /\ 0 <= row /\ row < layout.height
                               /\ 0 <= col /\ col < layout.width
                         THEN "placed" ELSE "off_image",
                  lat |-> lat, lng |-> lng, row |-> row, col |-> col]
    /\ UNCHANGED <<layout, pixel>>
    /\ PixelStep

(***************************************************************************)
(* One image built and written by one generator function.  The source      *)
(* raster has SrcRows rows of one cell, row 0 the northernmost; an image   *)
(* is a column of pixels.  Temperatures are in hundredths.                 *)
(***************************************************************************)
TEMP_COLORS ==
    << <<5, 48, 97>>, <<33, 102, 172>>, <<67, 147, 195>>, <<146, 197, 222>>,
       <<209, 229, 240>>, <<253, 219, 199>>, <<244, 165, 130>>, <<214, 96, 77>>,
       <<178, 24, 43>>, <<103, 0, 31>> >>

BIVARIATE_COLORS ==
    << << <<243, 243, 243>>, <<243, 230, 179>>, <<243, 179, 0>> >>,
       << <<180, 211, 225>>, <<179, 179, 179>>, <<179, 102, 0>> >>,
       << <<80, 157, 194>>, <<55, 99, 135>>, <<0, 0, 0>> >> >>

White == <<255, 255, 255>>

\* a pixel of np.zeros((rows, cols, 4)) left untouched
Untouched == [rgb |-> <<0, 0, 0>>, a |-> 0]

\* img_array[row, col] = [r, g, b, 255], and a pixel of an image without an
\* alpha channel
Opaque(rgb) == [rgb |-> rgb, a |-> 255]

DenseScripts == {"generate_leaflet_images.py", "generate_overlay_images.py"}

Generators ==
    [script : PixelScripts \cup DenseScripts, kind : {"temp", "rain_sun"}]
        \cup {[script |-> "process_temperature.py", kind |-> "temp"]}

SrcCells == 0 .. SrcRows - 1

\* rows of the image: IMG_HEIGHT for a resampling generator, the rows of the
\* frame for the others
ImageRows(g) ==
    IF g.script \in PixelScripts THEN 0 .. ImgRows - 1 ELSE SrcCells

ImageHeight(g) == IF g.script \in PixelScripts THEN ImgRows ELSE SrcRows

\* The source row nearest to the coordinate of a pixel row, the source extent
\* spanning the bounds of the layout: the fraction row / divisor of the way
\* from the north edge.
NearestRow(s, row) == Min(SrcRows - 1, (row * SrcRows) \div RowDivisor(s, ImgRows))

Cell(r) == [kind |-> "cell", row |-> r]

\* transform() followed by the rounding of the keys, for every pixel row: the
\* key of a source cell; with at most one pixel either off every cell
\* ("outside") or raising in the try block ("raises").
Projections(s) ==
    LET base == [r \in 0 .. ImgRows - 1 |-> Cell(NearestRow(s, r))]
    IN  {base} \cup
        {[base EXCEPT ![r] = [kind |-> k, row |-> 0]] :
             r \in 0 .. ImgRows - 1, k \in {"outside", "raises"}}

\* the rows of a frame as they are
Direct == [r \in SrcCells |-> Cell(r)]

PartialMaps(S, V) == UNION {[D -> V] : D \in SUBSET S}

\* np.flipud
flipud(a, h) == [r \in 0 .. h - 1 |-> a[h - 1 - r]]

\* the sorted values of a sparse grid at index i (from 0)
SortedAt(f, i) == KthSmallest(f, i + 1)

\* The two breakpoints of a variable, times 100.
\* generate_pngs_fixed.py: values[n // 3], values[(2 * n) // 3]
\* generate_pngs.py, generate_pngs_old_broken.py: vals[int(len(vals) * 0.33)],
\*   vals[int(len(vals) * 0.66)]
\* generate_leaflet_images.py, generate_overlay_images.py: np.percentile 33, 66
Percentile100(f, q) ==
    LET n == Cardinality(DOMAIN f)
        pos == (n - 1) * q
        lo == pos \div 100
        fr == pos % 100
        a == KthSmallest(f, lo + 1)
    IN  IF fr = 0 THEN 100 * a
        ELSE 100 * a + fr * (KthSmallest(f, lo + 2) - a)

\* BreakpointIndices rounding the thirds up.
BreakpointIndicesCeil(s, n) == <<(n + 2) \div 3, (2 * n + 2) \div 3>>

\* the two indices into the sorted values: n // 3 and (2 * n) // 3, or
\* int(n * 0.33) and int(n * 0.66)
BreakpointIndices(s, n) ==
    IF s = "generate_pngs_fixed.py"
    THEN <<n \div 3, (2 * n) \div 3>>
    ELSE <<PyInt(n * 33, 100), PyInt(n * 66, 100)>>

Breakpoints(s, f) ==
    LET n == Cardinality(DOMAIN f)
        i == BreakpointIndices(s, n)
    IN  IF s \in PixelScripts
        THEN <<100 * SortedAt(f, i[1]), 100 * SortedAt(f, i[2])>>
        ELSE <<Percentile100(f, 33), Percentile100(f, 66)>>

\* Level with a fourth level above the second breakpoint.
LevelOpenEnded(v, b) == IF 100 * v < b[1] THEN 0 ELSE IF 100 * v < b[2] THEN 1
                        ELSE IF 100 * v = b[2] THEN 2 ELSE 3

\* 0 if v < b33 else (1 if v < b66 else 2)
Level(v, b) == IF 100 * v < b[1] THEN 0 ELSE IF 100 * v < b[2] THEN 1 ELSE 2

\* get_color_for_rain_sun(rain, sun, rain33, rain66, sun33, sun66)
get_color_for_rain_sun(rain, sun, rb, sb) ==
    BIVARIATE_COLORS[Level(rain, rb) + 1][Level(sun, sb) + 1]

\* BIVARIATE_COLORS[(rain_level, sun_level)]: the colour under the key, or
\* a KeyError when the table has no such key
BivariateKeys == (0 .. 2) \X (0 .. 2)
BivariateLookup(rl, sl) ==
    IF <<rl, sl>> \in BivariateKeys
    THEN [found |-> TRUE, rgb |-> BIVARIATE_COLORS[rl + 1][sl + 1]]
    ELSE [found |-> FALSE, rgb |-> <<>>]

\* Amounts and breakpoints tried by the call of get_color_for_rain_sun: the
\* breakpoints in order, equal, or out of order, the amount under, on, between
\* and over them.
BivariateAmounts == 0 .. 4
BivariateBreakpoints == {1, 2, 3}

\* get_color_for_rain_sun(rain, sun, rain33, rain66, sun33, sun66) applied to
\* two values that are not missing
CallGetColorForRainSun ==
    /\ SequentialReady
    /\ \E rain \in BivariateAmounts, sun \in BivariateAmounts :
       \E r33 \in BivariateBreakpoints, r66 \in BivariateBreakpoints,
          s33 \in BivariateBreakpoints, s66 \in BivariateBreakpoints :
         LET rl == Level(rain, <<100 * r33, 100 * r66>>)
             sl == Level(sun, <<100 * s33, 100 * s66>>)
             hit == BivariateLookup(rl, sl)
         IN  bivariate' = [op |-> "get_color_for_rain_sun", rain |-> rain, sun |-> sun,
                           rain33 |-> r33, rain66 |-> r66, sun33 |-> s33, sun66 |-> s66,
                           rain_level |-> rl, sun_level |-> sl,
                           found |-> hit.found, rgb |-> hit.rgb]
    /\ UNCHANGED <<colorizer, temp_values, color_idx, tertile>>
    /\ ColorStep

\* The values of a sparse grid tried by the selection of the breakpoints, in
\* the order of the grid (SortedAt sorts them): up to MaxDecileCells amounts,
\* and the empty list of a grid whose columns hold no value.
TertileAmounts == {1, 2, 3}
ValueLists == UNION {[1 .. n -> TertileAmounts] : n \in 0 .. MaxDecileCells}

\* values[i]: an IndexError unless i is an index of the n values
Indexable(n, i) == 0 <= i /\ i < n

\* the breakpoints of one variable: rain_values[n // 3] if n > 0 else 0 in
\* generate_pngs_fixed.py, rain_vals[int(len(rain_vals) * 0.33)] in the others
SelectBreakpoints(s, f) ==
    LET n == Cardinality(DOMAIN f)
        i == BreakpointIndices(s, n)
    IN  IF s = "generate_pngs_fixed.py" /\ n = 0
        THEN [n |-> n, raised |-> FALSE, idx |-> <<0, 0>>, b |-> <<0, 0>>]
        ELSE IF Indexable(n, i[1]) /\ Indexable(n, i[2])
        THEN [n |-> n, raised |-> FALSE, idx |-> i, b |-> Breakpoints(s, f)]
        ELSE [n |-> n, raised |-> TRUE, idx |-> i, b |-> <<0, 0>>]

\* "Calculate percentiles" of generate_rain_sun_image: the breakpoints of the
\* rain values, then those of the sun values
CalculatePercentiles ==
    /\ SequentialReady
    /\ \E s \in PixelScripts : \E rain \in ValueLists, sun \in ValueLists :
         LET r == SelectBreakpoints(s, rain)
         IN  tertile' = [op |-> "calculated", script |-> s, rain |-> r,
                         sun |-> IF r.raised THEN NotSelected
                                 ELSE SelectBreakpoints(s, sun)]
    /\ UNCHANGED <<colorizer, temp_values, color_idx, bivariate>>
    /\ ColorStep

\* the temperature colour of a script
TempColor(s, t) ==
    IF s = "generate_overlay_images.py" THEN TEMP_COLORS[process_temp_color_idx(t) + 1]
    ELSE IF s = "generate_leaflet_images.py" THEN TEMP_COLORS[temp_colormap(t) + 1]
    ELSE TEMP_COLORS[get_color_for_temp(t) + 1]

NoFile == [mode |-> "none", px |-> EmptyMap]

ImageIdle ==
    /\ gen = [script |-> "none", kind |-> "none"]
    /\ src = [temp |-> EmptyMap, rain |-> EmptyMap, sun |-> EmptyMap]
    /\ proj = EmptyMap
    /\ img_array = EmptyMap
    /\ png = NoFile
    /\ img_status = "start"

\* A generator function, the data of its period (an empty map is a file that
\* is absent or holds no cell, or a frame of NaN), and the outcome of the
\* transform for every pixel.
ImageInit ==
    /\ gen \in Generators
    /\ src \in IF gen.kind = "temp"
               THEN [temp : PartialMaps(SrcCells, ImageTemps),
                     rain : {EmptyMap}, sun : {EmptyMap}]
               ELSE [temp : {EmptyMap},
                     rain : PartialMaps(SrcCells, ImageAmounts),
                     sun : PartialMaps(SrcCells, ImageAmounts)]
    /\ proj \in IF gen.script \in PixelScripts THEN Projections(gen.script) ELSE {Direct}
    /\ img_array = EmptyMap
    /\ png = NoFile
    /\ img_status = "start"

\* ResampledTemp looking the data up whatever the transform did.
ResampledTempUnguarded(s, data, p) ==
    IF p.row \in DOMAIN data
    THEN Opaque(TempColor(s, data[p.row]))
    ELSE Untouched

\* the body of the pixel loop of generate_temp_image
ResampledTemp(s, data, p) ==
    IF p.kind = "cell" /\ p.row \in DOMAIN data
    THEN Opaque(TempColor(s, data[p.row]))
    ELSE Untouched

\* ResampledRainSun colouring a pixel from the rain value alone when the sun
\* value is absent.
ResampledRainSunOneSided(s, rain, sun, p) ==
    IF p.kind = "cell" /\ p.row \in DOMAIN rain
    THEN IF p.row \in DOMAIN sun
         THEN Opaque(get_color_for_rain_sun(rain[p.row], sun[p.row],
                                            Breakpoints(s, rain), Breakpoints(s, sun)))
         ELSE Opaque(BIVARIATE_COLORS[Level(rain[p.row], Breakpoints(s, rain)) + 1][1])
    ELSE Untouched

\* the body of the pixel loop of generate_rain_sun_image, and of the cell
\* loop of process_rain_sun
ResampledRainSun(s, rain, sun, p) ==
    IF p.kind = "cell" /\ p.row \in DOMAIN rain /\ p.row \in DOMAIN sun
    THEN Opaque(get_color_for_rain_sun(rain[p.row], sun[p.row],
                                       Breakpoints(s, rain), Breakpoints(s, sun)))
    ELSE Untouched

\* the array the script gives to Image.fromarray: generate_rain_sun_image of
\* generate_pngs_old_broken.py flips it first
BeforeSave(g, a) ==
    IF g.script = "generate_pngs_old_broken.py" /\ g.kind = "rain_sun"
    THEN flipud(a, ImgRows)
    ELSE a

\* generate_temp_image(year, month) of the three resampling generators
generate_temp_image ==
    /\ img_status = "start"
    /\ gen.script \in PixelScripts
    /\ gen.kind = "temp"
    /\ IF DOMAIN src.temp = {}
       THEN /\ img_status' = "skipped"
            /\ UNCHANGED <<img_array, png>>
       ELSE LET a == [r \in 0 .. ImgRows - 1 |->
                         ResampledTemp(gen.script, src.temp, proj[r])]
            IN  /\ img_array' = a
                /\ png' = [mode |-> "RGBA", px |-> BeforeSave(gen, a)]
                /\ img_status' = "written"
    /\ UNCHANGED <<gen, src, proj>>
    /\ ImageStep

\* generate_rain_sun_image(year, month) of the three resampling generators
generate_rain_sun_image ==
    /\ img_status = "start"
    /\ gen.script \in PixelScripts
    /\ gen.kind = "rain_sun"
    /\ IF DOMAIN src.rain = {} \/ DOMAIN src.sun = {}
       THEN /\ img_status' = "skipped"
            /\ UNCHANGED <<img_array, png>>
       ELSE LET a == [r \in 0 .. ImgRows - 1 |->
                         ResampledRainSun(gen.script, src.rain, src.sun, proj[r])]
            IN  /\ img_array' = a
                /\ png' = [mode |-> "RGBA", px |-> BeforeSave(gen, a)]
                /\ img_status' = "written"
    /\ UNCHANGED <<gen, src, proj>>
    /\ ImageStep

\* process_temperature(year, month) of generate_leaflet_images.py and
\* process_temp(year, month) of generate_overlay_images.py, the file found
process_temp ==
    /\ img_status = "start"
    /\ gen.script \in DenseScripts
    /\ gen.kind = "temp"
    /\ LET a == [r \in SrcCells |-> ResampledTemp(gen.script, src.temp, proj[r])]
       IN  /\ img_array' = a
           /\ png' = [mode |-> "RGBA", px |-> a]
    /\ img_status' = "written"
    /\ UNCHANGED <<gen, src, proj>>
    /\ ImageStep

\* process_rain_sun(year, month) of the same two scripts, the files found.
\* np.percentile of an array without a value raises or gives NaN, by the
\* version of the library.
process_rain_sun ==
    /\ img_status = "start"
    /\ gen.script \in DenseScripts
    /\ gen.kind = "rain_sun"
    /\ \/ /\ DOMAIN src.rain = {} \/ DOMAIN src.sun = {}
          /\ img_status' = "raised"
          /\ UNCHANGED <<img_array, png>>
       \/ LET a == [r \in SrcCells |->
                       ResampledRainSun(gen.script, src.rain, src.sun, proj[r])]
          IN  /\ img_array' = a
              /\ png' = [mode |-> "RGBA", px |-> a]
              /\ img_status' = "written"
    /\ UNCHANGED <<gen, src, proj>>
    /\ ImageStep

\* rgb_array of create_temp_rgb_array before its flip: np.ones, then the
\* colour of its bin for every valid cell
rgb_array(f) ==
    [r \in SrcCells |->
        IF r \in DOMAIN f THEN Opaque(TEMP_COLORS[DecileIdx(f, f[r]) + 1])
        ELSE Opaque(White)]

\* create_temp_rgb_array(temp_values, colors)
create_temp_rgb_array(f) ==
    IF DOMAIN f = {} THEN rgb_array(f) ELSE flipud(rgb_array(f), SrcRows)

\* the monthly image of process_temperature.py: create_temp_rgb_array, then
\* Image.fromarray((rgb_array * 255).astype('uint8')) and img.save
MonthlyImage ==
    /\ img_status = "start"
    /\ gen.script = "process_temperature.py"
    /\ img_array' = rgb_array(src.temp)
    /\ png' = [mode |-> "RGB", px |-> create_temp_rgb_array(src.temp)]
    /\ img_status' = "written"
    /\ UNCHANGED <<gen, src, proj>>
    /\ ImageStep

(***************************************************************************)
(* One run of a batch script: extract_data.py, process_temperature.py,     *)
(* generate_pngs_fixed.py, generate_leaflet_images.py or                   *)
(* generate_overlay_images.py.  Anything that can raise (opening a         *)
(* dataset, reading a month, saving a file, closing) either succeeds or    *)
(* raises.  An exception nothing catches ends the run with a traceback.    *)
(***************************************************************************)
BatchScripts == {"extract_data.py", "process_temperature.py", "generate_pngs_fixed.py"}
                    \cup DenseScripts

\* YEARS_TO_PROCESS = [2021, 2022, 2023] of extract_data.py, YEARS of
\* generate_pngs_fixed.py; process_temperature.py runs over more years, and
\* is run over these
YEARS_TO_PROCESS == <<2021, 2022, 2023>>
Years == {YEARS_TO_PROCESS[i] : i \in DOMAIN YEARS_TO_PROCESS}

\* range(12), shortened to MonthsPerYear months
Months == 1 .. MonthsPerYear

\* the three process_variable calls of extract_data.py, in order
Variables == <<"temp", "rain", "sun">>

NoDescriptor == [written |-> FALSE, years |-> {}, total_images |-> 0]

BatchIdle ==
    /\ script = "none"
    /\ files = [temp |-> {}, rain |-> {}, sun |-> {}]
    /\ stale = {}
    /\ pc = "done"
    /\ var_i = 1
    /\ year_i = 1
    /\ month_i = 1
    /\ open_handles = 0
    /\ extent_info = FALSE
    /\ monthly_temp_sum = [m \in Months |-> {}]
    /\ total_images = 0
    /\ failed_images = 0
    /\ outputs = {}
    /\ descriptor = NoDescriptor
    /\ log = {}

\* A script, the years whose input file exists for each variable, and the
\* years whose 01.png an earlier run of process_temperature.py left: none (a
\* clean output directory) or all.
BatchInit ==
    /\ script \in BatchScripts
    /\ files \in IF script = "process_temperature.py"
                 THEN [temp : SUBSET Years, rain : {{}}, sun : {{}}]
                 ELSE [temp : SUBSET Years, rain : SUBSET Years, sun : SUBSET Years]
    /\ stale \in IF script = "process_temperature.py" THEN {{}, Years} ELSE {{}}
    /\ pc = IF script \in {"extract_data.py", "process_temperature.py"}
            THEN "years" ELSE "months"
    /\ var_i = 1
    /\ year_i = 1
    /\ month_i = 1
    /\ open_handles = 0
    /\ extent_info = FALSE
    /\ monthly_temp_sum = [m \in Months |-> {}]
    /\ total_images = 0
    /\ failed_images = 0
    /\ outputs = {}
    /\ descriptor = NoDescriptor
    /\ log = {}

Year == YEARS_TO_PROCESS[year_i]
LastYear == year_i = Len(YEARS_TO_PROCESS)
LastMonth == month_i = MonthsPerYear

Printed(what, kind, y, m) == log' = log \cup {<<what, kind, y, m>>}

\* an exception that nothing catches: the interpreter prints the traceback
\* and the run ends
Uncaught(kind, y, m) ==
    /\ Printed("traceback", kind, y, m)
    /\ pc' = "crashed"

\* what no step of a run changes
RunInputs == UNCHANGED <<script, files, stale>>

\* what extract_data.py and generate_pngs_fixed.py do not have
NoCounters == UNCHANGED <<extent_info, monthly_temp_sum, total_images, failed_images>>

\* --- extract_data.py: process_variable, three times, then the metadata ---
Variable == Variables[var_i]

\* the next pass of the year loop of process_variable; after the last year
\* the next call, after the last call the metadata
NextYearOfVariable ==
    IF ~LastYear
    THEN /\ year_i' = year_i + 1
         /\ pc' = "years"
         /\ UNCHANGED var_i
    ELSE IF var_i < Len(Variables)
    THEN /\ year_i' = 1
         /\ var_i' = var_i + 1
         /\ pc' = "years"
    ELSE /\ pc' = "metadata"
         /\ UNCHANGED <<year_i, var_i>>

\* if not nc_files: print a warning, continue
process_variable_no_file ==
    /\ script = "extract_data.py"
    /\ pc = "years"
    /\ Year \notin files[Variable]
    /\ Printed("warning", Variable, Year, 0)
    /\ NextYearOfVariable
    /\ UNCHANGED <<month_i, open_handles, outputs, descriptor>>
    /\ NoCounters
    /\ RunInputs
    /\ BatchStep

\* ds = xr.open_dataset(nc_file) and the choice of data_var: the open raises;
\* or no data variable is found (an error is printed, ds.close(), continue);
\* or the month loop starts
process_variable_open ==
    /\ script = "extract_data.py"
    /\ pc = "years"
    /\ Year \in files[Variable]
    /\ \/ /\ Uncaught(Variable, Year, 0)
          /\ UNCHANGED <<var_i, year_i, month_i, open_handles>>
       \/ /\ Printed("error", Variable, Year, 0)
          /\ NextYearOfVariable
          /\ UNCHANGED <<month_i, open_handles>>
       \/ /\ pc' = "months"
          /\ month_i' = 1
          /\ open_handles' = open_handles + 1
          /\ UNCHANGED <<log, var_i, year_i>>
    /\ UNCHANGED <<outputs, descriptor>>
    /\ NoCounters
    /\ RunInputs
    /\ BatchStep

\* one pass of "for month_idx in range(12)": reading the month or writing the
\* file raises, nothing catching it; or the file is written, and after the
\* last month ds.close()
process_variable_month ==
    /\ script = "extract_data.py"
    /\ pc = "months"
    /\ \/ /\ Uncaught(Variable, Year, month_i)
          /\ UNCHANGED <<var_i, year_i, month_i, open_handles, outputs>>
       \/ /\ outputs' = outputs \cup {<<Variable, Year, month_i>>}
          /\ Printed("cells", Variable, Year, month_i)
          /\ IF ~LastMonth
             THEN /\ month_i' = month_i + 1
                  /\ UNCHANGED <<pc, var_i, year_i, open_handles>>
             ELSE /\ month_i' = 1
                  /\ open_handles' = open_handles - 1
                  /\ NextYearOfVariable
    /\ UNCHANGED descriptor
    /\ NoCounters
    /\ RunInputs
    /\ BatchStep

\* metadata.json: "years": YEARS_TO_PROCESS
write_metadata ==
    /\ script = "extract_data.py"
    /\ pc = "metadata"
    /\ descriptor' = [written |-> TRUE, years |-> Years, total_images |-> 0]
    /\ Printed("metadata", "metadata", 0, 0)
    /\ pc' = "done"
    /\ UNCHANGED <<var_i, year_i, month_i, open_handles, outputs>>
    /\ NoCounters
    /\ RunInputs
    /\ BatchStep

\* --- generate_pngs_fixed.py: the main loop, then bounds.json ---
\* the next month of the main loop; after the last month of the last year
\* the bounds
NextPeriod ==
    IF ~LastMonth
    THEN /\ month_i' = month_i + 1
         /\ UNCHANGED <<year_i, pc>>
    ELSE IF ~LastYear
    THEN /\ month_i' = 1
         /\ year_i' = year_i + 1
         /\ UNCHANGED pc
    ELSE /\ pc' = "metadata"
         /\ UNCHANGED <<year_i, month_i>>

\* main_generate_temp_image leaving the whole period when the temperature
\* tile is absent
main_generate_temp_image_period_skip ==
    /\ script = "generate_pngs_fixed.py"
    /\ pc = "months"
    /\ var_i = 1
    /\ IF Year \notin files.temp
       THEN /\ Printed("SKIP", "temp", Year, month_i)
            /\ UNCHANGED <<outputs, var_i>>
            /\ NextPeriod
       ELSE \/ /\ Uncaught("temp", Year, month_i)
               /\ UNCHANGED <<outputs, var_i, year_i, month_i>>
            \/ /\ outputs' = outputs \cup {<<"temp", Year, month_i>>}
               /\ Printed("ok", "temp", Year, month_i)
               /\ var_i' = 2
               /\ UNCHANGED <<pc, year_i, month_i>>
    /\ UNCHANGED <<open_handles, descriptor>>
    /\ NoCounters
    /\ RunInputs
    /\ BatchStep

\* generate_temp_image(year, month) in the main loop: SKIP when load_data
\* gives nothing; else the image is saved, or img.save raises
main_generate_temp_image ==
    /\ script = "generate_pngs_fixed.py"
    /\ pc = "months"
    /\ var_i = 1
    /\ IF Year \notin files.temp
       THEN /\ Printed("SKIP", "temp", Year, month_i)
            /\ var_i' = 2
            /\ UNCHANGED <<outputs, pc>>
       ELSE \/ /\ Uncaught("temp", Year, month_i)
               /\ UNCHANGED <<outputs, var_i>>
            \/ /\ outputs' = outputs \cup {<<"temp", Year, month_i>>}
               /\ Printed("ok", "temp", Year, month_i)
               /\ var_i' = 2
               /\ UNCHANGED pc
    /\ UNCHANGED <<year_i, month_i, open_handles, descriptor>>
    /\ NoCounters
    /\ RunInputs
    /\ BatchStep

\* generate_rain_sun_image(year, month) in the main loop
main_generate_rain_sun_image ==
    /\ script = "generate_pngs_fixed.py"
    /\ pc = "months"
    /\ var_i = 2
    /\ IF Year \notin files.rain \/ Year \notin files.sun
       THEN /\ Printed("SKIP", "rain_sun", Year, month_i)
            /\ var_i' = 1
            /\ NextPeriod
            /\ UNCHANGED outputs
       ELSE \/ /\ Uncaught("rain_sun", Year, month_i)
               /\ UNCHANGED <<outputs, var_i, year_i, month_i>>
            \/ /\ outputs' = outputs \cup {<<"rain_sun", Year, month_i>>}
               /\ Printed("ok", "rain_sun", Year, month_i)
               /\ var_i' = 1
               /\ NextPeriod
    /\ UNCHANGED <<open_handles, descriptor>>
    /\ NoCounters
    /\ RunInputs
    /\ BatchStep

\* bounds.json
save_bounds ==
    /\ script = "generate_pngs_fixed.py"
    /\ pc = "metadata"
    /\ descriptor' = [written |-> TRUE, years |-> {}, total_images |-> 0]
    /\ Printed("metadata", "metadata", 0, 0)
    /\ pc' = "done"
    /\ UNCHANGED <<var_i, year_i, month_i, open_handles, outputs>>
    /\ NoCounters
    /\ RunInputs
    /\ BatchStep

\* --- generate_leaflet_images.py and generate_overlay_images.py: the main
\* loop over the source files, then the metadata of the first; the second
\* writes no file but the images ---
\* what the call prints before anything else: generate_leaflet_images.py the
\* name of the period, generate_overlay_images.py (in its main loop, before
\* process_temp) the month
Announced(kind) ==
    IF script = "generate_leaflet_images.py" THEN {<<"start", kind, Year, month_i>>}
    ELSE IF kind = "temp" THEN {<<"start", "month", Year, month_i>>}
    ELSE {}

\* if not nc_files: generate_leaflet_images.py prints "SKIP (no data)",
\* generate_overlay_images.py returns without a word
SkipPrinted(kind) ==
    IF script = "generate_leaflet_images.py" THEN {<<"SKIP", kind, Year, month_i>>} ELSE {}

\* the mark printed after the call: by generate_leaflet_images.py at the end
\* of a call that saved its image; by the main loop of
\* generate_overlay_images.py after the two calls of the month, whatever
\* they did
MarkPrinted(kind, saved) ==
    IF script = "generate_leaflet_images.py"
    THEN IF saved THEN {<<"ok", kind, Year, month_i>>} ELSE {}
    ELSE IF kind = "rain_sun" THEN {<<"ok", "month", Year, month_i>>}
    ELSE {}

\* the call raises, nothing catching it, with leaked datasets left open
DenseRaises(kind, leaked) ==
    /\ log' = log \cup Announced(kind) \cup {<<"traceback", kind, Year, month_i>>}
    /\ pc' = "crashed"
    /\ open_handles' = open_handles + leaked
    /\ UNCHANGED <<outputs, var_i, year_i, month_i>>

\* process_temperature(year, month) and process_temp(year, month) in the main
\* loop: no file for the year; or xr.open_dataset raises; or reading the
\* month raises, the dataset open; or, the dataset closed, saving the figure
\* raises; or the image is saved
dense_process_temp ==
    /\ script \in DenseScripts
    /\ pc = "months"
    /\ var_i = 1
    /\ IF Year \notin files.temp
       THEN /\ log' = log \cup Announced("temp") \cup SkipPrinted("temp")
            /\ var_i' = 2
            /\ UNCHANGED <<outputs, pc, open_handles, year_i, month_i>>
       ELSE \/ DenseRaises("temp", 0)
            \/ DenseRaises("temp", 1)
            \/ /\ outputs' = outputs \cup {<<"temp", Year, month_i>>}
               /\ log' = log \cup Announced("temp") \cup MarkPrinted("temp", TRUE)
               /\ var_i' = 2
               /\ UNCHANGED <<pc, open_handles, year_i, month_i>>
    /\ UNCHANGED descriptor
    /\ NoCounters
    /\ RunInputs
    /\ BatchStep

\* process_rain_sun(year, month) in the main loop: a file of the year
\* missing; or opening the first dataset, np.percentile or saving raises, no
\* dataset open; or opening the second raises, the first open; or reading a
\* month raises, both open; or the image is saved
dense_process_rain_sun ==
    /\ script \in DenseScripts
    /\ pc = "months"
    /\ var_i = 2
    /\ IF Year \notin files.rain \/ Year \notin files.sun
       THEN /\ log' = log \cup Announced("rain_sun") \cup SkipPrinted("rain_sun")
                        \cup MarkPrinted("rain_sun", FALSE)
            /\ var_i' = 1
            /\ NextPeriod
            /\ UNCHANGED <<outputs, open_handles>>
       ELSE \/ DenseRaises("rain_sun", 0)
            \/ DenseRaises("rain_sun", 1)
            \/ DenseRaises("rain_sun", 2)
            \/ /\ outputs' = outputs \cup {<<"rain_sun", Year, month_i>>}
               /\ log' = log \cup Announced("rain_sun") \cup MarkPrinted("rain_sun", TRUE)
               /\ var_i' = 1
               /\ NextPeriod
               /\ UNCHANGED open_handles
    /\ UNCHANGED descriptor
    /\ NoCounters
    /\ RunInputs
    /\ BatchStep

\* metadata.json of generate_leaflet_images.py: "years": YEARS_TO_PROCESS
leaflet_metadata ==
    /\ script = "generate_leaflet_images.py"
    /\ pc = "metadata"
    /\ descriptor' = [written |-> TRUE, years |-> Years, total_images |-> 0]
    /\ Printed("metadata", "metadata", 0, 0)
    /\ pc' = "done"
    /\ UNCHANGED <<var_i, year_i, month_i, open_handles, outputs>>
    /\ NoCounters
    /\ RunInputs
    /\ BatchStep

\* the end of generate_overlay_images.py: "COMPLETE" and the bounds are
\* printed, no file is written
overlay_complete ==
    /\ script = "generate_overlay_images.py"
    /\ pc = "metadata"
    /\ Printed("complete", "bounds", 0, 0)
    /\ pc' = "done"
    /\ UNCHANGED <<var_i, year_i, month_i, open_handles, outputs, descriptor>>
    /\ NoCounters
    /\ RunInputs
    /\ BatchStep

\* --- process_temperature.py: the year loop, the averages, the metadata ---
\* the next pass of the year loop; after the last year the averages
NextYear ==
    /\ month_i' = 1
    /\ IF ~LastYear
       THEN /\ year_i' = year_i + 1
            /\ pc' = "years"
       ELSE /\ pc' = "averages"
            /\ UNCHANGED year_i

\* if not os.path.exists(temp_file): print, failed_images += 12, continue
year_not_found ==
    /\ script = "process_temperature.py"
    /\ pc = "years"
    /\ Year \notin files.temp
    /\ Printed("skipping", "temp", Year, 0)
    /\ failed_images' = failed_images + MonthsPerYear
    /\ NextYear
    /\ UNCHANGED <<var_i, open_handles, extent_info, monthly_temp_sum, total_images,
                   outputs, descriptor>>
    /\ RunInputs
    /\ BatchStep

\* the except of the year: print "Failed to load", failed_images += 12
FailedToLoad(printed) ==
    /\ log' = log \cup printed \cup {<<"failed_load", "temp", Year, 0>>}
    /\ failed_images' = failed_images + MonthsPerYear
    /\ NextYear

\* nc_temp = xr.open_dataset(temp_file) and the coordinates: the open
\* raises; or the first read of the coordinates raises, the dataset open; or
\* extent_info is set and the month loop starts
year_open ==
    /\ script = "process_temperature.py"
    /\ pc = "years"
    /\ Year \in files.temp
    /\ \/ /\ FailedToLoad({})
          /\ UNCHANGED <<open_handles, extent_info>>
       \/ /\ ~extent_info
          /\ FailedToLoad({})
          /\ open_handles' = open_handles + 1
          /\ UNCHANGED extent_info
       \/ /\ extent_info' = TRUE
          /\ open_handles' = open_handles + 1
          /\ pc' = "months"
          /\ month_i' = 1
          /\ UNCHANGED <<log, failed_images, year_i>>
    /\ UNCHANGED <<var_i, monthly_temp_sum, total_images, outputs, descriptor>>
    /\ RunInputs
    /\ BatchStep

\* one pass of "for month_idx in range(12)", in its try: reading the month
\* raises; or the frame is appended to monthly_temp_sum and saving the image
\* raises; or the image is saved and total_images += 1.  The except prints
\* "Failed to process" and failed_images += 1.
month_image ==
    /\ script = "process_temperature.py"
    /\ pc = "months"
    /\ \/ /\ Printed("failed", "temp", Year, month_i)
          /\ failed_images' = failed_images + 1
          /\ UNCHANGED <<monthly_temp_sum, outputs, total_images>>
       \/ /\ monthly_temp_sum' = [monthly_temp_sum EXCEPT ![month_i] = @ \cup {Year}]
          /\ Printed("failed", "temp", Year, month_i)
          /\ failed_images' = failed_images + 1
          /\ UNCHANGED <<outputs, total_images>>
       \/ /\ monthly_temp_sum' = [monthly_temp_sum EXCEPT ![month_i] = @ \cup {Year}]
          /\ outputs' = outputs \cup {<<"temp", Year, month_i>>}
          /\ total_images' = total_images + 1
          /\ UNCHANGED <<log, failed_images>>
    /\ IF LastMonth
       THEN /\ pc' = "year_end"
            /\ UNCHANGED month_i
       ELSE /\ month_i' = month_i + 1
            /\ UNCHANGED pc
    /\ UNCHANGED <<var_i, year_i, open_handles, extent_info, descriptor>>
    /\ RunInputs
    /\ BatchStep

\* after the month loop: print "complete", nc_temp.close(); the close raising
\* falls into the except of the year
year_end ==
    /\ script = "process_temperature.py"
    /\ pc = "year_end"
    /\ \/ /\ Printed("complete", "temp", Year, 0)
          /\ open_handles' = open_handles - 1
          /\ NextYear
          /\ UNCHANGED failed_images
       \/ /\ FailedToLoad({<<"complete", "temp", Year, 0>>})
          /\ UNCHANGED open_handles
    /\ UNCHANGED <<var_i, extent_info, monthly_temp_sum, total_images, outputs, descriptor>>
    /\ RunInputs
    /\ BatchStep

\* one pass of the loop of the averages: no frame for the month, a message;
\* else the mean image is saved, or saving it raises, nothing catching it
month_average ==
    /\ script = "process_temperature.py"
    /\ pc = "averages"
    /\ LET next == IF LastMonth
                   THEN /\ pc' = "metadata"
                        /\ UNCHANGED month_i
                   ELSE /\ month_i' = month_i + 1
                        /\ UNCHANGED pc
       IN  IF monthly_temp_sum[month_i] = {}
           THEN /\ Printed("no_data", "average", 0, month_i)
                /\ UNCHANGED outputs
                /\ next
           ELSE \/ /\ Uncaught("average", 0, month_i)
                   /\ UNCHANGED <<outputs, month_i>>
                \/ /\ outputs' = outputs \cup {<<"average", 0, month_i>>}
                   /\ Printed("average", "average", 0, month_i)
                   /\ next
    /\ UNCHANGED <<var_i, year_i, open_handles, extent_info, monthly_temp_sum,
                   total_images, failed_images, descriptor>>
    /\ RunInputs
    /\ BatchStep

\* os.path.exists(temp_images/{y}/01.png)
FirstImageExists(y) == <<"temp", y, 1>> \in outputs \/ y \in stale

\* the metadata step: without extent_info a message; else Image.open of the
\* 01.png of YEARS_TO_PROCESS[0], which raises when the file is not there;
\* else temp_metadata.json with the years whose 01.png exists
temp_metadata ==
    /\ script = "process_temperature.py"
    /\ pc = "metadata"
    /\ IF ~extent_info
       THEN /\ Printed("no_metadata", "metadata", 0, 0)
            /\ pc' = "done"
            /\ UNCHANGED descriptor
       ELSE IF ~FirstImageExists(YEARS_TO_PROCESS[1])
       THEN /\ Uncaught("metadata", 0, 0)
            /\ UNCHANGED descriptor
       ELSE /\ descriptor' = [written |-> TRUE,
                              years |-> {y \in Years : FirstImageExists(y)},
                              total_images |-> total_images]
            /\ Printed("metadata", "metadata", 0, 0)
            /\ pc' = "done"
    /\ UNCHANGED <<var_i, year_i, month_i, open_handles, extent_info, monthly_temp_sum,
                   total_images, failed_images, outputs>>
    /\ RunInputs
    /\ BatchStep

(***************************************************************************)
(* The start of extract_data.py and of generate_pngs.py: the constants     *)
(* configured, then the statements of the module down to its loops.  For   *)
(* extract_data.py west, east, south, north are X_MIN, X_MAX, Y_MIN, Y_MAX *)
(* and res is RESOLUTION; for generate_pngs.py they are LNG_MIN, LNG_MAX,  *)
(* LAT_MIN, LAT_MAX, and there is no resolution.                           *)
(***************************************************************************)
StartScripts == {"extract_data.py", "generate_pngs.py"}

\* Values tried for the four edges: in order, equal, and inverted.
ConfigEdges == 0 .. 2

Configs ==
    {c \in [script : StartScripts, west : ConfigEdges, east : ConfigEdges,
            south : ConfigEdges, north : ConfigEdges, res : 0 .. MaxRes] :
        c.script = "generate_pngs.py" => c.res = 1}

StartIdle ==
    /\ config = [script |-> "none", west |-> 0, east |-> 1, south |-> 0, north |-> 1,
                 res |-> 1]
    /\ boot = [pc |-> "done", dirs |-> FALSE, read |-> FALSE]

StartInit ==
    /\ config \in Configs
    /\ boot = [pc |-> "makedirs", dirs |-> FALSE, read |-> FALSE]

\* os.makedirs(..., exist_ok=True), the first statements after the constants
\* and the prints
make_dirs ==
    /\ boot.pc = "makedirs"
    /\ boot' = [boot EXCEPT !.dirs = TRUE,
                            !.pc = IF config.script = "extract_data.py"
                                   THEN "woolhampton" ELSE "loop"]
    /\ UNCHANGED config
    /\ StartStep

\* woolhampton_row, woolhampton_col = coord_to_index(WOOLHAMPTON_X, WOOLHAMPTON_Y):
\* the division by RESOLUTION raises ZeroDivisionError when it is zero
find_woolhampton ==
    /\ boot.pc = "woolhampton"
    /\ boot' = [boot EXCEPT !.pc = IF config.res = 0 THEN "crashed" ELSE "loop"]
    /\ UNCHANGED config
    /\ StartStep

\* the loops start: process_variable opens its first dataset, the main loop
\* of generate_pngs.py loads its first tile
first_read ==
    /\ boot.pc = "loop"
    /\ boot' = [boot EXCEPT !.read = TRUE, !.pc = "running"]
    /\ UNCHANGED config
    /\ StartStep

(***************************************************************************)
(* Specifications.                                                         *)
(***************************************************************************)

\* the start of a script under every configuration
StartNext == make_dirs \/ find_woolhampton \/ first_read
InitStart == StartInit /\ GridIdle /\ ColorIdle /\ PixelIdle /\ ImageIdle /\ BatchIdle
SpecStart == InitStart /\ [][StartNext]_vars

\* the grid index mapper as a pure function of its inputs
MapperNext == RoundTripCall \/ MapperCall \/ ResamplerKeyCall
InitMapper == MapperInit /\ ColorIdle /\ PixelIdle /\ ImageIdle /\ BatchIdle /\ StartIdle
SpecMapper == InitMapper /\ [][MapperNext]_vars

\* the serializer loop of process_variable, then lookups by the resampler
SparseNext == SerializeCell \/ LookupCentre
InitSparse == SparseInit /\ ColorIdle /\ PixelIdle /\ ImageIdle /\ BatchIdle /\ StartIdle
SpecSparse == InitSparse /\ [][SparseNext]_vars

\* the colorizers as pure functions of their inputs
ColorNext ==
    \/ CallGetColorForTemp
    \/ CallTempColormap
    \/ CallProcessTempColor
    \/ CallDecile
    \/ CallGetColorForRainSun
    \/ CalculatePercentiles
InitColor == ColorInit /\ GridIdle /\ PixelIdle /\ ImageIdle /\ BatchIdle /\ StartIdle
SpecColor == InitColor /\ [][ColorNext]_vars

\* the coordinate of a pixel as a pure function of the layout
PixelNext == TempImagePixel \/ RainSunImagePixel
InitPixel == PixelInit /\ GridIdle /\ ColorIdle /\ ImageIdle /\ BatchIdle /\ StartIdle
SpecPixel == InitPixel /\ [][PixelNext]_vars

\* the pixel of a test point as a pure function of the layout and the point
PlacementNext == draw_landmark \/ locate_pixel
InitPlacement == PlacementInit /\ GridIdle /\ ColorIdle /\ ImageIdle /\ BatchIdle /\ StartIdle
SpecPlacement == InitPlacement /\ [][PlacementNext]_vars

\* one call of one generator function
ImageNext ==
    \/ generate_temp_image
    \/ generate_rain_sun_image
    \/ process_temp
    \/ process_rain_sun
    \/ MonthlyImage
InitImage == ImageInit /\ GridIdle /\ ColorIdle /\ PixelIdle /\ BatchIdle /\ StartIdle
SpecImage == InitImage /\ [][ImageNext]_vars

\* one run of a batch script
Next ==
    \/ process_variable_no_file
    \/ process_variable_open
    \/ process_variable_month
    \/ write_metadata
    \/ main_generate_temp_image
    \/ main_generate_rain_sun_image
    \/ save_bounds
    \/ dense_process_temp
    \/ dense_process_rain_sun
    \/ leaflet_metadata
    \/ overlay_complete
    \/ year_not_found
    \/ year_open
    \/ month_image
    \/ year_end
    \/ month_average
    \/ temp_metadata
Init == BatchInit /\ GridIdle /\ ColorIdle /\ PixelIdle /\ ImageIdle /\ StartIdle
Spec == Init /\ [][Next]_vars

(***************************************************************************)
(* Claims.                                                                 *)
(***************************************************************************)

\* C1: for every extent and every cell (row, col) of the raster,
\* coord_to_index(index_to_coord(row, col)) is exactly (row, col).
C1_RoundTrip ==
    probe.op = "round_trip" =>
        /\ <<probe.row, probe.col>> \in Cells(extent)
        /\ probe.out_row = probe.row
        /\ probe.out_col = probe.col

\* C1 witness: the round trip was applied to a cell off the first row and
\* the first column.
C1_Witness ==
    probe.op = "round_trip" /\ probe.row = 1 /\ probe.col = 1 /\ extent.res = 2

\* C2 as claimed: in generate_pngs_fixed.py and generate_pngs.py, for an image
\* of H rows and W columns over [[S, W], [N, E]], the coordinate computed for
\* pixel (0, 0) is (N, W) and the coordinate computed for pixel (H-1, W-1) is
\* (S, E).
C2_PixelBoundsInversion ==
    (pixel.op # "none" /\ layout.script \in {"generate_pngs_fixed.py", "generate_pngs.py"}) =>
        /\ pixel.crs = "EPSG:4326"
        /\ pixel.row = 0 => pixel.lat_num = layout.north * pixel.lat_den
        /\ pixel.col = 0 => pixel.lng_num = layout.west * pixel.lng_den
        /\ pixel.row = layout.height - 1 => pixel.lat_num = layout.south * pixel.lat_den
        /\ pixel.col = layout.width - 1 => pixel.lng_num = layout.east * pixel.lng_den

\* The source cell of pixel row r of the image has a value: the pixel's
\* coordinate falls on a cell, and the cell is in the data of the period.
SourceHasValue(r) ==
    /\ proj[r].kind = "cell"
    /\ IF gen.kind = "temp"
       THEN proj[r].row \in DOMAIN src.temp
       ELSE proj[r].row \in DOMAIN src.rain /\ proj[r].row \in DOMAIN src.sun

\* C3 as claimed: in every image written, every pixel whose source cell has
\* no value (NaN, key absent, or coordinate outside the source) has alpha 0.
C3_MissingIsTransparent ==
    img_status = "written" =>
        \A r \in ImageRows(gen) : ~SourceHasValue(r) => png.px[r].a = 0

\* Every cell centre x_min + (col + 0.5) * res and y_max - (row + 0.5) * res is
\* an integer multiple of the resolution, as with the configured extent
\* (X_MIN = -199500.0, Y_MAX = 1249500.0, RESOLUTION = 1000).
CentresOnResolution(e) ==
    /\ (e.x_min2 + e.res) % (2 * e.res) = 0
    /\ (e.y_max2 - e.res) % (2 * e.res) = 0

InputKinds(s) ==
    IF s = "process_temperature.py" THEN {"temp"} ELSE {"temp", "rain", "sun"}

\* the (kind, year) whose input file is absent
MissingSources == {ky \in InputKinds(script) \X Years : ky[2] \notin files[ky[1]]}

\* the run is over
Ended == pc \in {"done", "crashed"}

\* nothing raised while a year or a month was processed
NothingRaised ==
    \A e \in log :
        /\ e[1] \notin {"failed", "failed_load", "error"}
        /\ e[1] = "traceback" => e[2] = "metadata"

\* C5 as claimed: a run of extract_data.py or process_temperature.py with
\* the source file of exactly one year absent, whichever year, logs the skip
\* of that year, produces every output of the other years, writes the
\* metadata descriptor and ends normally.
C5_MissingYearResilience ==
    (/\ script \in {"extract_data.py", "process_temperature.py"}
     /\ Ended
     /\ Cardinality(MissingSources) = 1
     /\ NothingRaised) =>
        /\ pc = "done"
        /\ descriptor.written
        /\ \A ky \in MissingSources :
               \E e \in log : e[1] \in {"warning", "skipping"} /\ e[2] = ky[1] /\ e[3] = ky[2]
        /\ \A ky \in (InputKinds(script) \X Years) \ MissingSources :
               \A m \in Months : <<ky[1], ky[2], m>> \in outputs

\* the periods of a script, and their order in its run
PeriodKinds(s) ==
    IF s = "process_temperature.py" THEN {"temp"}
    ELSE IF s = "extract_data.py" THEN {"temp", "rain", "sun"}
    ELSE {"temp", "rain_sun"}

YearIndex(y) == CHOOSE i \in DOMAIN YEARS_TO_PROCESS : YEARS_TO_PROCESS[i] = y

KindIndex(k) == IF k \in {"rain", "rain_sun"} THEN 2 ELSE IF k = "sun" THEN 3 ELSE 1

PeriodPos(s, k, y, m) ==
    IF s = "extract_data.py"
    THEN ((KindIndex(k) - 1) * Len(YEARS_TO_PROCESS) + YearIndex(y) - 1) * MonthsPerYear + m
    ELSE ((YearIndex(y) - 1) * MonthsPerYear + m - 1) * 2 + KindIndex(k)

SourcePresent(k, y) ==
    IF k = "rain_sun" THEN y \in files.rain /\ y \in files.sun ELSE y \in files[k]

\* the period was processed: its output is written, or its failure or the
\* failure of its year was caught and logged
Processed(k, y, m) ==
    \/ <<k, y, m>> \in outputs
    \/ \E e \in log :
         /\ e[1] \in {"failed", "failed_load", "error"}
         /\ e[2] = k
         /\ e[3] = y
         /\ e[4] \in {0, m}

\* the periods whose processing raised
RaisedPeriods ==
    {e \in log : e[1] \in {"failed", "traceback"} /\ e[2] \in PeriodKinds(script) /\ e[4] # 0}

\* C6 as claimed: in every batch script, a period whose processing raises is
\* skipped and logged, and every later period of the batch is processed.
C6_PeriodFailureIsolated ==
    (script \in BatchScripts /\ Ended) =>
        \A e \in RaisedPeriods :
            /\ e[1] = "failed"
            /\ \A k \in PeriodKinds(script), y \in Years, m \in Months :
                   (/\ SourcePresent(k, y)
                    /\ PeriodPos(script, k, y, m) > PeriodPos(script, e[2], e[3], e[4]))
                       => Processed(k, y, m)

\* C7 as claimed: in every image a generator writes, the rows are those of
\* the build loop, row 0 the northernmost, with no vertical flip between the
\* loop and the write.
C7_NorthUpNoFlip ==
    img_status = "written" =>
        \A r \in ImageRows(gen) : png.px[r] = img_array[r]

\* C8 as claimed: every generator computes the coordinate of a pixel by
\* linear interpolation in latitude and longitude over the bounds it
\* persists, lat = N - row / (H - 1) * (N - S), lng = W + col / (W - 1) * (E - W),
\* as the viewer does, and none interpolates in Web-Mercator space.
C8_SameTransform ==
    pixel.op # "none" =>
        /\ pixel.crs = "EPSG:4326"
        /\ pixel.lat_num * (layout.height - 1) =
               (layout.north * (layout.height - 1) - pixel.row * (layout.north - layout.south))
                   * pixel.lat_den
        /\ pixel.lng_num * (layout.width - 1) =
               (layout.west * (layout.width - 1) + pixel.col * (layout.east - layout.west))
                   * pixel.lng_den

\* C9 as claimed: every sequential temperature colorizer returns the index
\* floor(clamp((value - min) / (max - min), 0, 1) * (N - 1)), within [0, N - 1].
C9_SequentialIndex ==
    colorizer.op \in {"get_color_for_temp", "temp_colormap", "process_temp"} =>
        /\ colorizer.idx = (Clamped(colorizer.temp) * (NumColors - 1)) \div ScaleDen
        /\ colorizer.idx \in 0 .. (NumColors - 1)

\* C10: for values v1 < v2 the index given to v1 is at most the index given
\* to v2, by get_color_for_temp and by the decile bins of one frame.
C10_Monotonic ==
    /\ colorizer.op = "get_color_for_temp" =>
           (colorizer.temp < colorizer.temp2 => colorizer.idx <= colorizer.idx2)
    /\ colorizer.op = "decile" =>
           \A c \in DOMAIN temp_values, d \in DOMAIN temp_values :
               temp_values[c] < temp_values[d] => color_idx[c] <= color_idx[d]

\* C10 witness: a frame of three distinct valid values was binned, into
\* three different bins.
C10_Witness ==
    /\ colorizer.op = "decile"
    /\ \E c \in DOMAIN temp_values, d \in DOMAIN temp_values, g \in DOMAIN temp_values :
         /\ temp_values[c] < temp_values[d]
         /\ temp_values[d] < temp_values[g]
         /\ color_idx[c] < color_idx[d]
         /\ color_idx[d] < color_idx[g]

\* the 9 colours of the bivariate table
BivariateColours == {BIVARIATE_COLORS[i][j] : i \in 1 .. 3, j \in 1 .. 3}

\* C11: for every pair (rain, sun) of non-missing values and every choice of
\* the four breakpoints, get_color_for_rain_sun computes levels in
\* {0,1,2} x {0,1,2}, the lookup finds the key, and the result is the one
\* colour of the 9 of the table that stands under the two levels.
C11_BivariateTotal ==
    bivariate.op = "get_color_for_rain_sun" =>
        /\ bivariate.rain_level \in 0 .. 2
        /\ bivariate.sun_level \in 0 .. 2
        /\ bivariate.found
        /\ Cardinality(BivariateColours) = 9
        /\ bivariate.rgb \in BivariateColours
        /\ bivariate.rgb = BIVARIATE_COLORS[bivariate.rain_level + 1][bivariate.sun_level + 1]

\* C11 witness: a call with the rain breakpoints out of order and both values
\* over every breakpoint returned the colour of (2, 2).
C11_Witness ==
    /\ bivariate.op = "get_color_for_rain_sun"
    /\ bivariate.rain33 > bivariate.rain66
    /\ bivariate.rain = 4
    /\ bivariate.sun = 4
    /\ bivariate.found
    /\ bivariate.rgb = <<0, 0, 0>>

LowerOrEqualLevel(v, b33, b66) == Cardinality({b \in {b33, b66} : b < v})

\* C13 as claimed: under the tertile levels of get_color_for_rain_sun and
\* under the decile bins of create_temp_rgb_array alike, a value exactly equal
\* to a breakpoint is placed in the bucket under the breakpoint.
C13_TiesLowerOrEqual ==
    /\ (/\ bivariate.op = "get_color_for_rain_sun"
        /\ bivariate.rain33 < bivariate.rain66
        /\ bivariate.rain \in {bivariate.rain33, bivariate.rain66}) =>
           bivariate.rain_level =
               LowerOrEqualLevel(bivariate.rain, bivariate.rain33, bivariate.rain66)
    /\ (/\ bivariate.op = "get_color_for_rain_sun"
        /\ bivariate.sun33 < bivariate.sun66
        /\ bivariate.sun \in {bivariate.sun33, bivariate.sun66}) =>
           bivariate.sun_level =
               LowerOrEqualLevel(bivariate.sun, bivariate.sun33, bivariate.sun66)
    /\ colorizer.op = "decile" =>
           \A c \in DOMAIN temp_values : \A i \in 1 .. 9 :
               10 * temp_values[c] = DecileBound10(temp_values, i) => color_idx[c] < i

\* the doubled coordinate (x2, y2) lies outside the extent
\* [x_min, x_min + width * res] x [y_max - height * res, y_max]
OutsideExtent(e, x2, y2) ==
    \/ x2 < e.x_min2
    \/ x2 > e.x_min2 + 2 * e.res * e.width
    \/ y2 > e.y_max2
    \/ y2 < e.y_max2 - 2 * e.res * e.height

\* C14 as claimed: for every input, coord_to_index returns
\* col = floor((x - x_min) / resolution) and row = floor((y_max - y) / resolution),
\* and for every coordinate outside the extent the index returned is not an
\* index of the raster.
C14_FloorIndex ==
    probe.op = "coord_to_index" =>
        /\ probe.out_col = (probe.x2 - extent.x_min2) \div (2 * extent.res)
        /\ probe.out_row = (extent.y_max2 - probe.y2) \div (2 * extent.res)
        /\ OutsideExtent(extent, probe.x2, probe.y2) =>
               <<probe.out_row, probe.out_col>> \notin Cells(extent)

\* Every cell centre is a whole number, as with the extent process_variable
\* is configured with (X_MIN = -199500.0, Y_MAX = 1249500.0, RESOLUTION = 1000:
\* centres -199000.0, 1249000.0, ...).
WholeCentres(e) == (e.x_min2 + e.res) % 2 = 0 /\ (e.y_max2 - e.res) % 2 = 0

\* the key pair the serializer gives a cell
CellKeys(e, c) ==
    LET xy == index_to_coord(e, c[1], c[2])
    IN  <<SerializerKey(xy[1]), SerializerKey(xy[2])>>

\* the key pairs that have an entry in a sparse grid
StoredKeys(m) == UNION {{<<xk, yk>> : yk \in DOMAIN m[xk]} : xk \in DOMAIN m}

\* C15: with cell centres that are whole numbers, for every frame, once the
\* serializer loop is over the sparse grid has an entry under the key pair of
\* a cell if and only if the cell is non-missing, it has no other entry,
\* distinct non-missing cells have distinct key pairs, and all along the loop
\* the number of stored values is the number of cells stored so far
\* (non_nan_count).
C15_SparseContent ==
    WholeCentres(extent) =>
        /\ ser_i >= 1 => Cardinality(StoredKeys(month_data)) = ser_i - 1
        /\ (ser_i >= 1 /\ SerializeDone) =>
               /\ \A c \in Cells(extent) :
                      SparseHas(month_data, CellKeys(extent, c)[1], CellKeys(extent, c)[2])
                          <=> c \in DOMAIN frame
               /\ StoredKeys(month_data) = {CellKeys(extent, c) : c \in DOMAIN frame}
               /\ \A c \in DOMAIN frame, d \in DOMAIN frame :
                      c # d => CellKeys(extent, c) # CellKeys(extent, d)
               /\ Cardinality(StoredKeys(month_data)) = Cardinality(DOMAIN frame)

\* C15 witness: a frame of four cells, three of them non-missing, on an extent
\* with whole centres on both sides of zero, was serialized into three entries.
C15_Witness ==
    /\ WholeCentres(extent)
    /\ extent.width = 2
    /\ extent.height = 2
    /\ extent.x_min2 < 0
    /\ ser_i >= 1
    /\ SerializeDone
    /\ Cardinality(DOMAIN frame) = 3
    /\ Cardinality(StoredKeys(month_data)) = 3

\* |a|
Abs(a) == IF a >= 0 THEN a ELSE -a

\* key is a multiple of the resolution, at most half a resolution from the
\* doubled coordinate c2, and no multiple of the resolution is nearer
NearestMultiple(e, key, c2) ==
    /\ key % e.res = 0
    /\ Abs(2 * key - c2) <= e.res
    /\ \A k \in (key \div e.res - 2) .. (key \div e.res + 2) :
           Abs(2 * k * e.res - c2) >= Abs(2 * key - c2)

\* C16: for every projected coordinate (x, y), the key pair the resampler
\* looks up is the multiple of the source resolution nearest to x and the
\* multiple nearest to y, each at most resolution / 2 from the input.
C16_NearestKey ==
    probe.op = "resampler_key" =>
        /\ NearestMultiple(extent, probe.x_key, probe.x2)
        /\ NearestMultiple(extent, probe.y_key, probe.y2)

\* C16 witness: a key was computed at resolution 2 for a negative x exactly
\* half a resolution from two multiples, and for a y off every multiple.
C16_Witness ==
    /\ probe.op = "resampler_key"
    /\ extent.res = 2
    /\ probe.x2 < 0
    /\ Abs(2 * probe.x_key - probe.x2) = extent.res
    /\ Abs(2 * probe.y_key - probe.y2) = 1

\* C17 as claimed: in every run of a batch script in which no call raised and
\* at least one period was processed, whichever source files are present,
\* the descriptor is written by the end of the run; and it is only ever
\* written once the last frame is done, the run being over with it.
C17_DescriptorOncePerBatch ==
    /\ descriptor.written => pc = "done"
    /\ (script \in BatchScripts /\ Ended /\ NothingRaised /\ outputs # {}) =>
           descriptor.written

\* the scripts whose descriptor has a "years" field
YearsScripts == {"extract_data.py", "process_temperature.py", "generate_leaflet_images.py"}

\* the years for which this run wrote an output
YearsCovered == {y \in Years : \E o \in outputs : o[2] = y}

\* C18 as claimed: at the end of every batch the "years" field of the metadata
\* written is the set of years for which this run produced outputs; a year
\* skipped for a missing source file is not in it.
C18_YearsCovered ==
    (script \in YearsScripts /\ Ended /\ descriptor.written) =>
        descriptor.years = YearsCovered

\* a message names the period, or its whole year, as skipped or failed
Reported(k, y, m) ==
    \E e \in log :
        /\ e[1] \in {"SKIP", "warning", "skipping", "failed", "failed_load", "error",
                     "traceback"}
        /\ e[2] = k
        /\ e[3] = y
        /\ e[4] \in {0, m}

\* a success mark was printed for the period, or for its month
Marked(k, y, m) ==
    \/ <<"ok", k, y, m>> \in log
    \/ <<"ok", "month", y, m>> \in log
    \/ <<"cells", k, y, m>> \in log

\* C19 as claimed: in every batch script, once the run is through its loops,
\* every period whose source is absent has a message naming it as skipped
\* and no success mark, and no period whose processing raised has a success
\* mark.
C19_NoSilentSkip ==
    (script \in BatchScripts /\ pc = "done") =>
        /\ \A k \in PeriodKinds(script), y \in Years, m \in Months :
               ~SourcePresent(k, y) => (Reported(k, y, m) /\ ~Marked(k, y, m))
        /\ \A e \in RaisedPeriods : ~Marked(e[2], e[3], e[4])

\* the run is between two periods: no period's dataset is in use, the next
\* one is not opened yet
BetweenPeriods ==
    \/ pc \in {"years", "averages", "metadata", "done", "crashed"}
    \/ pc = "months" /\ script \in DenseScripts

\* C20 as claimed: on every path of a batch script, the paths where opening
\* or reading a dataset raises included, no source dataset is open between
\* two periods, so that the datasets open are never more than those of one
\* period and none is open when the batch ends.
C20_ScopedHandles ==
    script \in BatchScripts =>
        /\ BetweenPeriods => open_handles = 0
        /\ open_handles <= 2
        /\ Ended => open_handles = 0

\* the frame of the period has no valid value: a frame of NaN, or a sparse
\* grid without an entry
EmptyFrame ==
    IF gen.kind = "temp" THEN DOMAIN src.temp = {}
    ELSE DOMAIN src.rain = {} /\ DOMAIN src.sun = {}

\* C21 as claimed: for a frame with no valid value every generator still
\* writes the image of the period, and every pixel of it is fully
\* transparent; the call neither drops the period nor fails nor writes an
\* opaque image.
C21_EmptyFrameTransparent ==
    (gen.script # "none" /\ img_status # "start" /\ EmptyFrame) =>
        /\ img_status = "written"
        /\ \A r \in ImageRows(gen) : png.px[r].a = 0

\* the extent is bad, the resolution zero, or the bounds inverted
BadConfig(c) ==
    \/ c.east <= c.west
    \/ c.north <= c.south
    \/ c.script = "extract_data.py" /\ c.res = 0

\* C22 as claimed: under a bad configuration the script aborts before it
\* creates a directory or reads a source, and never reaches its loops.
C22_ConfigFatalBeforeIO ==
    (config.script \in StartScripts /\ BadConfig(config)) =>
        /\ ~boot.dirs
        /\ ~boot.read
        /\ boot.pc \notin {"loop", "running"}

\* the data of the period is there, so that the generator builds its image
FrameLoaded ==
    IF gen.kind = "temp" THEN DOMAIN src.temp # {}
    ELSE DOMAIN src.rain # {} /\ DOMAIN src.sun # {}

\* the pixel the loop builds for row r when the transform succeeds for it
PixelWithoutFailure(r) ==
    LET p == Cell(NearestRow(gen.script, r))
    IN  IF gen.kind = "temp" THEN ResampledTemp(gen.script, src.temp, p)
        ELSE ResampledRainSun(gen.script, src.rain, src.sun, p)

\* C23: in a resampling generator, when the transform raises for a pixel,
\* that pixel is left fully transparent, every other pixel gets the value
\* it gets when nothing raises, and the image is written.
C23_ReprojectionPerPixel ==
    (/\ gen.script \in PixelScripts
     /\ img_status # "start"
     /\ FrameLoaded
     /\ \E r \in ImageRows(gen) : proj[r].kind = "raises") =>
        /\ img_status = "written"
        /\ \A r \in ImageRows(gen) :
               IF proj[r].kind = "raises"
               THEN img_array[r] = Untouched
               ELSE img_array[r] = PixelWithoutFailure(r)
        /\ \A r \in ImageRows(gen) : png.px[r] = BeforeSave(gen, img_array)[r]

\* C23 witness: generate_pngs_fixed.py wrote a temperature image whose first
\* pixel is transparent, its transform having raised over a cell with a
\* value, and whose last pixel is coloured.
C23_Witness ==
    /\ gen = [script |-> "generate_pngs_fixed.py", kind |-> "temp"]
    /\ img_status = "written"
    /\ proj[0].kind = "raises"
    /\ 0 \in DOMAIN src.temp
    /\ png.px[0].a = 0
    /\ png.px[ImgRows - 1].a = 255

\* the breakpoints, of the 9, that a value exceeds
Exceeded(f, v) == {i \in 1 .. 9 : 10 * v > DecileBound10(f, i)}

\* C24: create_temp_rgb_array computes 9 breakpoints over the valid values of
\* the frame, in nondecreasing order and within the range of those values,
\* and gives every valid cell, and no other, a bin index in [0, 9] equal to
\* the number of breakpoints its value exceeds.
C24_DecileBinning ==
    colorizer.op = "decile" =>
        /\ DOMAIN color_idx = DOMAIN temp_values
        /\ \A i \in 1 .. 9 :
               /\ \E c \in DOMAIN temp_values : 10 * temp_values[c] <= DecileBound10(temp_values, i)
               /\ \E c \in DOMAIN temp_values : 10 * temp_values[c] >= DecileBound10(temp_values, i)
               /\ i < 9 => DecileBound10(temp_values, i) <= DecileBound10(temp_values, i + 1)
        /\ \A c \in DOMAIN temp_values :
               /\ color_idx[c] \in 0 .. 9
               /\ color_idx[c] = Cardinality(Exceeded(temp_values, temp_values[c]))

\* C24 witness: a frame of four valid cells was binned, one cell exceeding
\* no breakpoint, one exceeding some but not all, one exceeding the 9.
C24_Witness ==
    /\ colorizer.op = "decile"
    /\ Cardinality(DOMAIN temp_values) = 4
    /\ \E c \in DOMAIN temp_values, d \in DOMAIN temp_values, g \in DOMAIN temp_values :
         /\ color_idx[c] = 0
         /\ color_idx[d] \in 1 .. 8
         /\ color_idx[g] = 9

\* the year loop of process_temperature.py is over
YearLoopOver == pc \notin {"years", "months", "year_end"}

\* C25 as claimed: in process_temperature.py, after the year loop the
\* aggregate of month m holds the frames of exactly the years whose image of
\* month m was written; no average is written before the year loop is over;
\* and once the averages are done there is an average for every month with a
\* frame, and for a month without a frame a message and no average.
C25_MultiYearAverage ==
    script = "process_temperature.py" =>
        /\ YearLoopOver =>
               \A m \in Months :
                   monthly_temp_sum[m] = {y \in Years : <<"temp", y, m>> \in outputs}
        /\ ~YearLoopOver => \A m \in Months : <<"average", 0, m>> \notin outputs
        /\ pc \in {"metadata", "done"} =>
               \A m \in Months :
                   IF monthly_temp_sum[m] # {}
                   THEN <<"average", 0, m>> \in outputs
                   ELSE /\ <<"average", 0, m>> \notin outputs
                        /\ <<"no_data", "average", 0, m>> \in log

\* a test point inside the bounds whose pixel was computed
Placed == landmark.op # "none" /\ WithinBounds(layout, landmark.lat, landmark.lng)

OnCellEdge(e, c2, edge2) == (c2 - edge2) % (2 * e.res) = 0

\* C27 as claimed: for every extent whose cell centres are multiples of the
\* resolution and every projected coordinate inside it, on a cell boundary
\* or not, the key pair of the resampler is the centre index_to_coord gives
\* for the cell coord_to_index selects.
C27_SameCellAsMapper ==
    /\ probe.op = "resampler_key"
    /\ CentresOnResolution(extent)
    /\ ~OutsideExtent(extent, probe.x2, probe.y2)
    => LET rc == coord_to_index(extent, probe.x2, probe.y2)
           xy == index_to_coord(extent, rc[1], rc[2])
       IN  /\ 2 * probe.x_key = xy[1]
           /\ 2 * probe.y_key = xy[2]

\* the rain/sun image of period (y, m) is still to come, was written, or
\* ended the run with a traceback
RainSunNotSkipped(y, m) ==
    \/ <<"rain_sun", y, m>> \in outputs
    \/ <<"traceback", "rain_sun", y, m>> \in log
    \/ pc = "months" /\ Year = y /\ month_i = m /\ var_i = 2

\* C28: in the main loop of generate_pngs_fixed.py, a step that prints SKIP
\* writes no file and changes no output; the rain/sun image of a period is
\* skipped exactly when the rain or the sun tile is absent, and the
\* temperature image of that period is then written when its tile is
\* present; the temperature image is skipped exactly when its tile is
\* absent, and the rain/sun image of that period is then not skipped.
C28_IndependentSkips ==
    [][script = "generate_pngs_fixed.py" =>
        /\ (\E e \in log' \ log : e[1] = "SKIP") =>
               outputs' = outputs /\ descriptor' = descriptor
        /\ \A y \in Years, m \in Months :
            /\ <<"SKIP", "rain_sun", y, m>> \in log' =>
                   /\ ~SourcePresent("rain_sun", y)
                   /\ y \in files.temp => <<"temp", y, m>> \in outputs'
            /\ <<"rain_sun", y, m>> \in outputs' => SourcePresent("rain_sun", y)
            /\ <<"SKIP", "temp", y, m>> \in log' =>
                   /\ y \notin files.temp
                   /\ SourcePresent("rain_sun", y) =>
                          /\ <<"SKIP", "rain_sun", y, m>> \notin log'
                          /\ RainSunNotSkipped(y, m)'
            /\ <<"temp", y, m>> \in outputs' => y \in files.temp
    ]_vars

\* C28 witness: the run ended with the rain/sun image of a period skipped and
\* its temperature image written, and with the temperature image of another
\* period skipped and its rain/sun image written.
C28_Witness ==
    /\ script = "generate_pngs_fixed.py"
    /\ pc = "done"
    /\ \E y \in Years, m \in Months :
         /\ <<"SKIP", "rain_sun", y, m>> \in log
         /\ <<"temp", y, m>> \in outputs
    /\ \E y \in Years, m \in Months :
         /\ <<"SKIP", "temp", y, m>> \in log
         /\ <<"rain_sun", y, m>> \in outputs

\* nc_temp.close() raised after the month loop of year y
CloseRaised(y) == <<"complete", "temp", y, 0>> \in log /\ <<"failed_load", "temp", y, 0>> \in log

\* C29 as claimed: when the year loop of process_temperature.py is over,
\* total_images + failed_images is the number of months of a year times the
\* number of configured years, whichever files are absent and whichever
\* load, close or month raises.
C29_ImageAccounting ==
    (script = "process_temperature.py" /\ YearLoopOver) =>
        total_images + failed_images = MonthsPerYear * Len(YEARS_TO_PROCESS)

\* the breakpoints of one variable were selected from at least one value
\* without an IndexError, both indices inside the list, the lower breakpoint
\* at most the upper
InRangeAndOrdered(t) ==
    /\ ~t.raised
    /\ t.idx[1] \in 0 .. t.n - 1
    /\ t.idx[2] \in 0 .. t.n - 1
    /\ t.idx[1] <= t.idx[2]
    /\ t.b[1] <= t.b[2]

\* C30: for every rain grid and sun grid with at least one value each, the
\* breakpoint selection of generate_rain_sun_image indexes inside the sorted
\* values (n // 3 and (2 * n) // 3, or int(n * 0.33) and int(n * 0.66)) and
\* the lower breakpoint is less than or equal to the upper one.
C30_TertileBreakpointsInRange ==
    (/\ tertile.op = "calculated"
     /\ tertile.rain.n >= 1) =>
        /\ InRangeAndOrdered(tertile.rain)
        /\ tertile.sun.n >= 1 => InRangeAndOrdered(tertile.sun)

\* C30 witness: generate_pngs.py selected the breakpoints of four rain values
\* at two different indices, the lower breakpoint under the upper, and those
\* of a single sun value.
C30_Witness ==
    /\ tertile.op = "calculated"
    /\ tertile.script = "generate_pngs.py"
    /\ tertile.rain.n = 4
    /\ tertile.rain.idx = <<1, 2>>
    /\ tertile.rain.b[1] < tertile.rain.b[2]
    /\ tertile.sun.n = 1
    /\ tertile.sun.idx = <<0, 0>>

====
